---- MODULE Spec2Model ----
(***************************************************************************)
(* marksman: the deadline-triggered reservation sniper.                    *)
(*                                                                         *)
(* The model follows ResyClient::run_sniper (src/src/resy_client.rs) from  *)
(* the parsing of the snipe date/time, through the two-phase deadline wait,*)
(* the configuration check and the availability lookup, to the sequential  *)
(* quote-then-commit attempts of ResyClient::_sniper_task.                 *)
(*                                                                         *)
(* Time is measured in ticks (TicksPerSec ticks per second) counted from   *)
(* local midnight of the day ClockEpochDay, so that sub-second clock       *)
(* readings exist.  Strings that the code parses are sequences of          *)
(* one-character strings, and are parsed digit by digit.                   *)
(***************************************************************************)
EXTENDS Integers, Sequences, FiniteSets, TLC

VARIABLES
    pc,          \* position of run_sniper
    clockMode,   \* "exact": a sleep advances the clock by its duration; "irregular": any reading
    now,         \* the latest reading of Local::now()
    snipe_date,  \* argument of run_sniper
    snipe_time,  \* argument of run_sniper
    config,      \* self.config
    datetime,    \* the target instant (ticks), NoInstant before it is computed
    remaining,   \* the local `remaining` (ticks)
    slept,       \* TRUE once the session has called sleep()
    lastSleep,   \* the latest sleep() call: its duration and the `remaining` it was computed from
    waited,      \* TRUE once the wait loop has ended
    slots,       \* the local `slots` after formatting and ranking
    idx,         \* index in slots of the slot the for loop is at
    book_token,  \* the local `book_token` of the running _sniper_task
    log,         \* gateway calls of the session, in order, with their responses
    attempts,    \* what each _sniper_task call returned, in order
    result       \* what run_sniper returned, NoResult while it runs

vars == <<pc, clockMode, now, snipe_date, snipe_time, config, datetime, remaining,
          slept, lastSleep, waited, slots, idx, book_token, log, attempts, result>>

(***************************************************************************)
(* Bounds of the model and constants of the program.                       *)
(***************************************************************************)
TicksPerSec == 2
MaxRawEntries == 4

GuardWindowSecs == 60
AlignModulusSecs == 60
NearThresholdSecs == 120
FineSleepSecs == 1
CoarseSleepSecs == 60
StartSliceFrom == 11
StartSliceTo == 16

Secs(n) == n * TicksPerSec

(***************************************************************************)
(* Strings and chrono's parsers.                                           *)
(***************************************************************************)
DigitChars == {"0", "1", "2", "3", "4", "5", "6", "7", "8", "9"}

DigitVal(c) ==
    CASE c = "0" -> 0 [] c = "1" -> 1 [] c = "2" -> 2 [] c = "3" -> 3 [] c = "4" -> 4
      [] c = "5" -> 5 [] c = "6" -> 6 [] c = "7" -> 7 [] c = "8" -> 8 [] c = "9" -> 9

\* chrono::format::scan::number(s, 1, maxw): at least one and at most maxw
\* digits starting at position p.  next is the position after the number.
RECURSIVE ScanDigits(_, _, _, _)
ScanDigits(s, p, maxw, acc) ==
    IF maxw = 0 \/ p > Len(s) \/ s[p] \notin DigitChars
    THEN [val |-> acc, next |-> p]
    ELSE ScanDigits(s, p + 1, maxw - 1, acc * 10 + DigitVal(s[p]))

ScanNumber(s, p, maxw) ==
    LET r == ScanDigits(s, p, maxw, 0)
    IN  [ok |-> r.next > p, val |-> r.val, next |-> r.next]

\* a literal character of the format string at position p; 0 when it is not there
ScanLiteral(s, p, c) == IF p <= Len(s) /\ s[p] = c THEN p + 1 ELSE 0

NoTime == 0 - 1

\* NaiveTime::parse_from_str(s, "%H%M") (colon = FALSE) and
\* NaiveTime::parse_from_str(s, "%H:%M") (colon = TRUE): minutes after
\* midnight, or NoTime for Err.  (Inputs hold no white space.)
ParseNaiveTime(s, colon) ==
    LET h == ScanNumber(s, 1, 2)
        p == IF ~h.ok THEN 0 ELSE IF colon THEN ScanLiteral(s, h.next, ":") ELSE h.next
        m == IF p = 0 THEN [ok |-> FALSE, val |-> 0, next |-> 0] ELSE ScanNumber(s, p, 2)
    IN  IF m.ok /\ m.next = Len(s) + 1 /\ h.val <= 23 /\ m.val <= 59
        THEN h.val * 60 + m.val
        ELSE NoTime

IsLeap(y) == (y % 4 = 0 /\ y % 100 # 0) \/ y % 400 = 0

DaysInMonth(y, m) ==
    IF m = 2 THEN (IF IsLeap(y) THEN 29 ELSE 28)
    ELSE IF m \in {4, 6, 9, 11} THEN 30 ELSE 31

RECURSIVE DaysBeforeMonth(_, _)
DaysBeforeMonth(y, m) ==
    IF m <= 1 THEN 0 ELSE DaysBeforeMonth(y, m - 1) + DaysInMonth(y, m - 1)

\* days from 0001-01-01 to y-m-d in the proleptic Gregorian calendar
DayNumber(y, m, d) ==
    LET py == y - 1
    IN  365 * py + (py \div 4) - (py \div 100) + (py \div 400) + DaysBeforeMonth(y, m) + d - 1

NoDate == 0 - 1

\* NaiveDate::parse_from_str(s, "%Y-%m-%d"): the day number, or NoDate for Err.
ParseNaiveDate(s) ==
    LET y  == ScanNumber(s, 1, 4)
        p1 == IF y.ok THEN ScanLiteral(s, y.next, "-") ELSE 0
        m  == IF p1 = 0 THEN [ok |-> FALSE, val |-> 0, next |-> 0] ELSE ScanNumber(s, p1, 2)
        p2 == IF m.ok THEN ScanLiteral(s, m.next, "-") ELSE 0
        d  == IF p2 = 0 THEN [ok |-> FALSE, val |-> 0, next |-> 0] ELSE ScanNumber(s, p2, 2)
    IN  IF d.ok /\ d.next = Len(s) + 1 /\ m.val \in 1..12 /\ d.val >= 1
           /\ d.val <= DaysInMonth(y.val, m.val)
        THEN DayNumber(y.val, m.val, d.val)
        ELSE NoDate

\* the clock counts ticks from local midnight of this day
ClockEpochDay == DayNumber(2024, 5, 1)

\* date.and_time(time), converted to the clock's ticks
LocalInstant(day, minutes) == Secs((day - ClockEpochDay) * 86400 + minutes * 60)

(***************************************************************************)
(* Values.                                                                 *)
(***************************************************************************)
NoInstant == 0 - 1
NoSleep == [phase |-> "none", dur |-> 0, before |-> 0]
NoToken == <<>>

\* ResyResult<String>: Ok(tok) or Err(ResyClientError::kind(msg))
Ok(tok) == [ok |-> TRUE, kind |-> "Ok", msg |-> "", tok |-> tok]
Err(kind, msg) == [ok |-> FALSE, kind |-> kind, msg |-> msg, tok |-> <<>>]
NoResult == [ok |-> FALSE, kind |-> "running", msg |-> "", tok |-> <<>>]

\* Option<String>
None == [some |-> FALSE, v |-> <<>>]
Some(s) == [some |-> TRUE, v |-> s]

\* the fields format_slots reads of a raw entry
SlotFields ==
    {"cfg_id", "cfg_token", "cfg_type", "date_start", "date_end", "size_min", "size_max",
     "quantity"}

(***************************************************************************)
(* Inputs: the arguments of run_sniper, the stored configuration, the      *)
(* clock and the responses of the gateway.                                 *)
(***************************************************************************)
SnipeDates ==
    { <<"2", "0", "2", "4", "-", "0", "5", "-", "0", "1">>,
      <<"2", "0", "2", "4", "-", "1", "3", "-", "0", "1">>,
      <<>> }

SnipeTimes ==
    { <<"0", "0", "0", "3">>,
      <<"0", "0", "0", "4">>,
      <<"2", "4", "0", "0">>,
      <<"0", "x", "0", "3">> }

CompleteConfig ==
    [api_key |-> "key", auth_token |-> "auth", venue_id |-> "834", venue_slug |-> "slug",
     date |-> "2024-05-08", party_size |-> 2, target_time |-> None, payment_id |-> "pay",
     snipe_date |-> <<>>, snipe_time |-> <<>>]

Configs ==
    { CompleteConfig,
      [CompleteConfig EXCEPT !.target_time = Some(<<"1", "9", "0", "0">>)],
      [CompleteConfig EXCEPT !.target_time = Some(<<"1", "9", "x", "0">>)],
      [CompleteConfig EXCEPT !.payment_id = ""],
      [CompleteConfig EXCEPT !.api_key = ""],
      [CompleteConfig EXCEPT !.party_size = 0] }

\* the clock when run_sniper is called, in the exact mode
StartReadings ==
    { 0, 1, Secs(59) + 1, Secs(60), Secs(61), Secs(119), Secs(120) - 1, Secs(120),
      Secs(170),
      Secs(181) }

\* the readings an irregular clock gives, relative to the target instant
IrregularOffsets ==
    { 0 - Secs(181), 0 - Secs(120) - 1, 0 - Secs(120), 0 - Secs(60) - 1, 0 - Secs(60),
      0 - Secs(59) - 1, 0 - 1, 0, 1, Secs(1) + 1 }

\* Local::now() read after a sleep of dur ticks (0: no sleep since the last reading)
ReadClock(target, dur) ==
    IF clockMode = "exact" THEN {now + dur} ELSE {target + o : o \in IrregularOffsets}

DatePrefix == <<"2", "0", "2", "4", "-", "0", "5", "-", "0", "8", " ">>

StartAt(h1, h2, m1, m2) == DatePrefix \o <<h1, h2, ":", m1, m2, ":", "0", "0">>

RawEntry(id, token, start) ==
    [present |-> SlotFields, cfg_id |-> id, cfg_token |-> token, cfg_type |-> "Dining",
     date_start |-> start, date_end |-> "2024-05-08 23:00:00", size_min |-> 1,
     size_max |-> 4, quantity |-> 1]

\* the raw entries the gateway may list, in gateway order.  present holds the
\* fields the entry has with the type the code asks for; the second entry is
\* malformed (no config.token)
Catalogue ==
    << RawEntry("1", "tokA", StartAt("1", "8", "0", "0")),
       [RawEntry("2", "tokM", StartAt("1", "8", "1", "5")) EXCEPT
           !.present = SlotFields \ {"cfg_token"}],
       RawEntry("3", "tokB", StartAt("1", "9", "3", "0")),
       RawEntry("4", "tokC", StartAt("1", "8", "3", "0")),
       RawEntry("5", "tokD", StartAt("1", "9", "1", "5")),
       RawEntry("6", "tokE", StartAt("2", "0", "0", "0")) >>

\* Ok(json) of find_reservation: has_slots says whether
\* json["results"]["venues"][0]["slots"] is an array, raw is that array
Json(raw) == [has_slots |-> TRUE, raw |-> raw]

FindJson ==
    { Json(SubSeq(Catalogue, 1, n)) : n \in 0..MaxRawEntries }
    \cup { [has_slots |-> FALSE, raw |-> <<>>],
           Json(<< RawEntry("7", "tokS", <<"1", "8", ":", "0", "0">>) >>),
           Json(<< RawEntry("1", "tokA", StartAt("1", "8", "0", "0")),
                   RawEntry("8", "tokX", StartAt("x", "x", "0", "0")) >>) }

\* Ok(json) of get_reservation_details: what json["book_token"]["value"] is
QuoteJson == {"no_book_token", "value_not_str", "token"}

\* Ok(json) of book_reservation: what json.get("resy_token") is
BookJson == {"no_resy_token", "null", "token"}

\* Err(e) of any gateway call: a transport error or a non-success status
GatewayErr == "err"

(***************************************************************************)
(* Pure functions of the program.                                          *)
(***************************************************************************)
\* Config::validate
Validate(c) ==
    /\ c.api_key # ""
    /\ c.auth_token # ""
    /\ c.venue_id # ""
    /\ c.date # ""
    /\ c.party_size > 0

\* the filter_map closure of format_slots: None unless every field is there
WellFormed(e) == SlotFields \subseteq e.present

ToSlot(e) ==
    [id |-> e.cfg_id, token |-> e.cfg_token, slot_type |-> e.cfg_type, start |-> e.date_start,
     end |-> e.date_end, min_size |-> e.size_min, max_size |-> e.size_max,
     quantity |-> e.quantity]

\* mutant: one malformed entry empties the list (collect into Option<Vec>)
format_slots_AllOrNothing(json) ==
    IF json.has_slots /\ \A k \in 1..Len(json.raw) : WellFormed(json.raw[k])
    THEN [k \in 1..Len(json.raw) |-> ToSlot(json.raw[k])]
    ELSE <<>>

format_slots(json) ==
    IF json.has_slots
    THEN LET kept == SelectSeq(json.raw, WellFormed)
         IN  [k \in 1..Len(kept) |-> ToSlot(kept[k])]
    ELSE <<>>

\* &slot.start[11..16]: panics when the string is shorter than the slice
SliceInBounds(start) == Len(start) >= StartSliceTo

StartSlice(start) == SubSeq(start, StartSliceFrom + 1, StartSliceTo)

\* the key of sort_by_key: whole minutes between the slot's time and the target
SortKey(time, target) == IF time > target THEN time - target ELSE target - time

\* mutant: x goes before the elements of equal key (an unstable sort)
InsertByKey_Unstable(sorted, x) ==
    LET pos == Cardinality({k \in 1..Len(sorted) : sorted[k].key < x.key})
    IN  SubSeq(sorted, 1, pos) \o <<x>> \o SubSeq(sorted, pos + 1, Len(sorted))

\* one step of a stable sort: x goes behind every element whose key is not larger
InsertByKey(sorted, x) ==
    LET pos == Cardinality({k \in 1..Len(sorted) : sorted[k].key <= x.key})
    IN  SubSeq(sorted, 1, pos) \o <<x>> \o SubSeq(sorted, pos + 1, Len(sorted))

RECURSIVE SortByKey(_)
SortByKey(ps) ==
    IF ps = <<>> THEN <<>>
    ELSE InsertByKey(SortByKey(SubSeq(ps, 1, Len(ps) - 1)), ps[Len(ps)])

SlotTimeParses(slot) == ParseNaiveTime(StartSlice(slot.start), TRUE) # NoTime

\* sort_slots_by_closest_time: panicked is TRUE when a slice is out of bounds
sort_slots_by_closest_time(ss, target_time) ==
    LET target == ParseNaiveTime(target_time, FALSE)
    IN  IF target = NoTime THEN [panicked |-> FALSE, slots |-> <<>>]
        ELSE IF \E k \in 1..Len(ss) : ~SliceInBounds(ss[k].start)
        THEN [panicked |-> TRUE, slots |-> <<>>]
        ELSE LET timed  == SelectSeq(ss, SlotTimeParses)
                 pairs  == [k \in 1..Len(timed) |->
                               [slot |-> timed[k],
                                key  |-> SortKey(ParseNaiveTime(StartSlice(timed[k].start), TRUE),
                                                 target)]]
                 sorted == SortByKey(pairs)
             IN  [panicked |-> FALSE, slots |-> [k \in 1..Len(sorted) |-> sorted[k].slot]]

\* chrono::Duration::num_seconds: whole seconds, rounded towards zero
NumSeconds(d) == IF d >= 0 THEN d \div TicksPerSec ELSE 0 - ((0 - d) \div TicksPerSec)

\* mutant: rem_euclid, a remainder that is never negative
RustRem_Euclid(a, b) == a % b

\* Rust's % on i64: the remainder has the sign of the dividend
RustRem(a, b) == IF a >= 0 THEN a % b ELSE 0 - ((0 - a) % b)

\* line 139: remaining.num_seconds() % 60
SecondsToSleep(rem) == RustRem(NumSeconds(rem), AlignModulusSecs)

\* mutant: the guard window compared with < instead of <=
InsideGuardWindow_Strict(target, reading) == target < reading + Secs(GuardWindowSecs)

\* line 130: datetime <= Local::now() + Duration::minutes(1)
InsideGuardWindow(target, reading) == target <= reading + Secs(GuardWindowSecs)

\* mutant: the loop gives up one second before the target
WaitCondition_Early(rem) == rem > Secs(FineSleepSecs)

\* mutant: the comparison of the loop condition inverted
WaitCondition_Inverted(rem) == rem < 0

\* line 145: the condition of the wait loop
WaitCondition(rem) == rem > 0

\* mutant: the fine-grained phase starts one minute before the target, not two
SleepStep_OneMinuteThreshold(rem) ==
    IF rem <= Secs(CoarseSleepSecs) THEN Secs(FineSleepSecs) ELSE Secs(CoarseSleepSecs)

\* lines 146-154: the sleep of one iteration of the wait loop
SleepStep(rem) ==
    IF rem <= Secs(NearThresholdSecs) THEN Secs(FineSleepSecs) ELSE Secs(CoarseSleepSecs)

(***************************************************************************)
(* The state machine.                                                      *)
(***************************************************************************)
Init ==
    /\ pc = "start"
    /\ clockMode \in {"exact", "irregular"}
    /\ now \in (IF clockMode = "exact" THEN StartReadings ELSE {0})
    /\ snipe_date \in SnipeDates
    /\ snipe_time \in SnipeTimes
    /\ config \in Configs
    /\ datetime = NoInstant
    /\ remaining = 0
    /\ slept = FALSE
    /\ lastSleep = NoSleep
    /\ waited = FALSE
    /\ slots = <<>>
    /\ idx = 0
    /\ book_token = NoToken
    /\ log = <<>>
    /\ attempts = <<>>
    /\ result = NoResult

\* run_sniper returns res
Return(res) ==
    /\ pc' = "done"
    /\ result' = res

\* lines 122-135: parse the arguments and check the guard window
CheckTarget ==
    /\ pc = "start"
    /\ UNCHANGED <<clockMode, snipe_date, snipe_time, remaining, slept, lastSleep, waited,
                   slots, idx, book_token, log, attempts>>
    /\ LET day     == ParseNaiveDate(snipe_date)
           minutes == ParseNaiveTime(snipe_time, FALSE)
       IN  IF day = NoDate
           THEN /\ Return(Err("InvalidInput", "Invalid date format"))
                /\ UNCHANGED <<now, config, datetime>>
           ELSE IF minutes = NoTime
           THEN /\ Return(Err("InvalidInput", "Invalid time format"))
                /\ UNCHANGED <<now, config, datetime>>
           ELSE \E single \in BOOLEAN :
                  IF ~single
                  THEN /\ Return(Err("InvalidInput", "Could not convert to local datetime"))
                       /\ UNCHANGED <<now, config, datetime>>
                  ELSE /\ datetime' = LocalInstant(day, minutes)
                       /\ \E r \in ReadClock(datetime', 0) :
                            /\ now' = r
                            /\ IF InsideGuardWindow(datetime', r)
                               THEN /\ Return(Err("InvalidInput", "Snipe date/time is in the past"))
                                    /\ UNCHANGED config
                               ELSE /\ config' = [config EXCEPT !.snipe_date = snipe_date,
                                                                !.snipe_time = snipe_time]
                                    /\ pc' = "compute"
                                    /\ UNCHANGED result

\* line 137: the first `remaining`
ComputeRemaining ==
    /\ pc = "compute"
    /\ \E r \in ReadClock(datetime, 0) :
         /\ now' = r
         /\ remaining' = datetime - r
    /\ pc' = "align"
    /\ UNCHANGED <<clockMode, snipe_date, snipe_time, config, datetime, slept, lastSleep,
                   waited, slots, idx, book_token, log, attempts, result>>

\* lines 139-144: the alignment sleep, and `remaining` recomputed
AlignSleep ==
    /\ pc = "align"
    /\ LET s == SecondsToSleep(remaining)
       IN  IF s > 0
           THEN /\ slept' = TRUE
                /\ lastSleep' = [phase |-> "align", dur |-> Secs(s), before |-> remaining]
                /\ \E r \in ReadClock(datetime, Secs(s)) :
                     /\ now' = r
                     /\ remaining' = datetime - r
           ELSE /\ UNCHANGED <<slept, lastSleep>>
                /\ \E r \in ReadClock(datetime, 0) :
                     /\ now' = r
                     /\ remaining' = datetime - r
    /\ pc' = "wait"
    /\ UNCHANGED <<clockMode, snipe_date, snipe_time, config, datetime, waited, slots, idx,
                   book_token, log, attempts, result>>

\* lines 145-156: one iteration of the wait loop
WaitStep ==
    /\ pc = "wait"
    /\ WaitCondition(remaining)
    /\ slept' = TRUE
    /\ lastSleep' = [phase |-> "loop", dur |-> SleepStep(remaining), before |-> remaining]
    /\ \E r \in ReadClock(datetime, SleepStep(remaining)) :
         /\ now' = r
         /\ remaining' = datetime - r
    /\ UNCHANGED <<pc, clockMode, snipe_date, snipe_time, config, datetime, waited, slots,
                   idx, book_token, log, attempts, result>>

\* line 145: the wait loop ends
WaitExit ==
    /\ pc = "wait"
    /\ ~WaitCondition(remaining)
    /\ pc' = "validate"
    /\ waited' = TRUE
    /\ UNCHANGED <<clockMode, now, snipe_date, snipe_time, config, datetime, remaining, slept,
                   lastSleep, slots, idx, book_token, log, attempts, result>>

\* lines 159-161
ValidateConfig ==
    /\ pc = "validate"
    /\ IF ~Validate(config)
       THEN Return(Err("InvalidInput", "reservation config is not complete"))
       ELSE /\ pc' = "find"
            /\ UNCHANGED result
    /\ UNCHANGED <<clockMode, now, snipe_date, snipe_time, config, datetime, remaining, slept,
                   lastSleep, waited, slots, idx, book_token, log, attempts>>

\* a gateway call as the gateway sees it, with its response
NoJson == [has_slots |-> FALSE, raw |-> <<>>]

Call(op, config_id, token, payment_id, res, json) ==
    [op |-> op, config_id |-> config_id, book_token |-> token, payment_id |-> payment_id,
     res |-> res, json |-> json]

CallsOf(op) == SelectSeq(log, LAMBDA c : c.op = op)

TokenDigits == <<"1", "2", "3", "4", "5", "6", "7", "8", "9">>

\* the book token the gateway issues at its n-th details call
BookTokenOf(n) == <<"b", "t", TokenDigits[n]>>

\* the resy_token value the gateway answers with when it books token
ResyTokenOf(token) == <<"r", "e", "s", "y">> \o token

\* serde_json's Value::to_string of a resy_token value: a string keeps its quotes
JsonToString(kind, v) ==
    IF kind = "null" THEN <<"n", "u", "l", "l">> ELSE <<"\"">> \o v \o <<"\"">>

\* mutant: a missing preferred time ranks around midnight
Ranked_AlwaysSorted(found, target_time) ==
    sort_slots_by_closest_time(found, IF target_time.some THEN target_time.v
                                      ELSE <<"0", "0", "0", "0">>)

\* lines 113-115 and 164-166: the list is ranked only if a target_time is configured
Ranked(found, target_time) ==
    IF target_time.some
    THEN sort_slots_by_closest_time(found, target_time.v)
    ELSE [panicked |-> FALSE, slots |-> found]

\* mutant: the empty check left out
NoSlots_Skipped(ss) == FALSE

\* line 168: slots.is_empty()
NoSlots(ss) == ss = <<>>

\* mutant: a failed lookup is made once more
LookupFailed_Retried ==
    IF CallsOf("find") = <<>>
    THEN UNCHANGED <<pc, result, slots, idx>>
    ELSE /\ Return(Err("ApiError", "Error fetching venue"))
         /\ UNCHANGED <<slots, idx>>

\* line 163 with lines 374-376: the `?` returns the ApiError of the lookup
LookupFailed ==
    /\ Return(Err("ApiError", "Error fetching venue"))
    /\ UNCHANGED <<slots, idx>>

\* lines 163-172: the availability lookup, the ranking, the empty check and the
\* entry of the for loop (which, over no slot at all, falls through to line 181)
FindSlots ==
    /\ pc = "find"
    /\ \E res \in {GatewayErr, "ok"} :
         \E json \in (IF res = "ok" THEN FindJson ELSE {NoJson}) :
           /\ log' = Append(log, Call("find", "", <<>>, "", res, json))
           /\ IF res = GatewayErr
              THEN LookupFailed
              ELSE LET found  == format_slots(json)
                       ranked == Ranked(found, config.target_time)
                   IN  IF ranked.panicked
                       THEN /\ pc' = "panicked"
                            /\ UNCHANGED <<slots, idx, result>>
                       ELSE /\ slots' = ranked.slots
                            /\ IF NoSlots(ranked.slots)
                               THEN /\ Return(Err("NotFound", "no reservation slots available"))
                                    /\ UNCHANGED idx
                               ELSE IF Len(ranked.slots) = 0
                               THEN /\ Return(Err("BookingError",
                                                  "Booking failure: all slots failed"))
                                    /\ UNCHANGED idx
                               ELSE /\ idx' = 1
                                    /\ pc' = "quote"
                                    /\ UNCHANGED result
    /\ UNCHANGED <<clockMode, now, snipe_date, snipe_time, config, datetime, remaining, slept,
                   lastSleep, waited, book_token, attempts>>

\* mutant: `Ok(tok) => {}`, a success is dropped like a failure
TaskReturns_SuccessSwallowed(ret) ==
    /\ attempts' = Append(attempts, [slot |-> idx, ret |-> ret])
    /\ book_token' = NoToken
    /\ IF idx < Len(slots)
       THEN /\ idx' = idx + 1
            /\ pc' = "quote"
            /\ UNCHANGED result
       ELSE /\ Return(Err("BookingError", "Booking failure: all slots failed"))
            /\ UNCHANGED idx

\* mutant: a success is remembered but the loop runs on to the last slot
TaskReturns_NoEarlyReturn(ret) ==
    /\ attempts' = Append(attempts, [slot |-> idx, ret |-> ret])
    /\ book_token' = NoToken
    /\ LET won == IF result.ok THEN result ELSE ret
       IN  IF idx < Len(slots)
           THEN /\ idx' = idx + 1
                /\ pc' = "quote"
                /\ result' = IF won.ok THEN won ELSE result
           ELSE /\ Return(IF won.ok THEN won
                          ELSE Err("BookingError", "Booking failure: all slots failed"))
                /\ UNCHANGED idx

\* mutant: the loop stops one slot short
TaskReturns_OffByOne(ret) ==
    /\ attempts' = Append(attempts, [slot |-> idx, ret |-> ret])
    /\ book_token' = NoToken
    /\ IF ret.ok
       THEN /\ Return(ret)
            /\ UNCHANGED idx
       ELSE IF idx < Len(slots) - 1
       THEN /\ idx' = idx + 1
            /\ pc' = "quote"
            /\ UNCHANGED result
       ELSE /\ Return(Err("BookingError", "Booking failure: all slots failed"))
            /\ UNCHANGED idx

\* mutant: `self._sniper_task(..).await?`, the first failure ends the session
TaskReturns_ErrFatal(ret) ==
    /\ attempts' = Append(attempts, [slot |-> idx, ret |-> ret])
    /\ book_token' = NoToken
    /\ Return(ret)
    /\ UNCHANGED idx

\* mutant: a failed commit ends the loop, only failed quotes let it go on
TaskReturns_CommitFailureSinks(ret) ==
    /\ attempts' = Append(attempts, [slot |-> idx, ret |-> ret])
    /\ book_token' = NoToken
    /\ IF ret.ok
       THEN /\ Return(ret)
            /\ UNCHANGED idx
       ELSE IF idx < Len(slots) /\ ret.msg # "Error booking reservation"
       THEN /\ idx' = idx + 1
            /\ pc' = "quote"
            /\ UNCHANGED result
       ELSE /\ Return(Err("BookingError", "Booking failure: all slots failed"))
            /\ UNCHANGED idx

\* mutant: the loop runs over every slot and the latest success is returned
TaskReturns_LastSuccessWins(ret) ==
    /\ attempts' = Append(attempts, [slot |-> idx, ret |-> ret])
    /\ book_token' = NoToken
    /\ LET best == IF ret.ok THEN ret
                   ELSE IF \E k \in 1..Len(attempts) : attempts[k].ret.ok
                   THEN attempts[CHOOSE k \in 1..Len(attempts) :
                                    /\ attempts[k].ret.ok
                                    /\ \A j \in (k + 1)..Len(attempts) : ~attempts[j].ret.ok].ret
                   ELSE Err("BookingError", "Booking failure: all slots failed")
       IN  IF idx < Len(slots)
           THEN /\ idx' = idx + 1
                /\ pc' = "quote"
                /\ UNCHANGED result
           ELSE /\ Return(best)
                /\ UNCHANGED idx

\* mutant: a slot whose attempt failed is attempted a second time
TaskReturns_SlotRetried(ret) ==
    /\ attempts' = Append(attempts, [slot |-> idx, ret |-> ret])
    /\ book_token' = NoToken
    /\ IF ret.ok
       THEN /\ Return(ret)
            /\ UNCHANGED idx
       ELSE IF \A k \in 1..Len(attempts) : attempts[k].slot # idx
       THEN /\ pc' = "quote"
            /\ UNCHANGED <<idx, result>>
       ELSE IF idx < Len(slots)
       THEN /\ idx' = idx + 1
            /\ pc' = "quote"
            /\ UNCHANGED result
       ELSE /\ Return(Err("BookingError", "Booking failure: all slots failed"))
            /\ UNCHANGED idx

\* mutant: a failed commit is retried once with the same book token
TaskReturns_CommitRetried(ret) ==
    IF /\ ~ret.ok
       /\ pc = "commit"
       /\ \A k \in 1..Len(log) : ~(log[k].op = "book" /\ log[k].book_token = book_token)
    THEN /\ pc' = "commit"
         /\ UNCHANGED <<attempts, book_token, idx, result>>
    ELSE /\ attempts' = Append(attempts, [slot |-> idx, ret |-> ret])
         /\ book_token' = NoToken
         /\ IF ret.ok
            THEN /\ Return(ret)
                 /\ UNCHANGED idx
            ELSE IF idx < Len(slots)
            THEN /\ idx' = idx + 1
                 /\ pc' = "quote"
                 /\ UNCHANGED result
            ELSE /\ Return(Err("BookingError", "Booking failure: all slots failed"))
                 /\ UNCHANGED idx

\* lines 172-181: _sniper_task returned ret for slots[idx]
TaskReturns(ret) ==
    /\ attempts' = Append(attempts, [slot |-> idx, ret |-> ret])
    /\ book_token' = NoToken
    /\ IF ret.ok
       THEN /\ Return(ret)
            /\ UNCHANGED idx
       ELSE IF idx < Len(slots)
       THEN /\ idx' = idx + 1
            /\ pc' = "quote"
            /\ UNCHANGED result
       ELSE /\ Return(Err("BookingError", "Booking failure: all slots failed"))
            /\ UNCHANGED idx

\* mutant: any Ok(json) of the details call lets the task go on to the commit
QuoteOutcome_AnyResponse(res, token) ==
    IF res # GatewayErr THEN Ok(token)
    ELSE Err("BookingError", "Error fetching book token")

\* lines 187-204: the quote step of _sniper_task
QuoteOutcome(res, token) ==
    IF res = "token" THEN Ok(token)
    ELSE IF res = "value_not_str" THEN Err("BookingError", "Book token not found")
    ELSE Err("BookingError", "Error fetching book token")

\* mutant: the next candidate's task is started as soon as a book token is
\* there, before the commit call of this one (tasks spawned without a guard)
TokenAcquired_NextStarted(tok) ==
    /\ book_token' = tok
    /\ IF idx < Len(slots)
       THEN idx' = idx + 1 /\ pc' = "quote"
       ELSE pc' = "commit" /\ UNCHANGED idx
    /\ UNCHANGED <<attempts, result>>

\* lines 206-208: with the book token, the task goes on to its commit call
TokenAcquired(tok) ==
    /\ book_token' = tok
    /\ pc' = "commit"
    /\ UNCHANGED <<idx, attempts, result>>

Quote ==
    /\ pc = "quote"
    /\ \E res \in {GatewayErr} \cup QuoteJson :
         LET token == IF res = "token" THEN BookTokenOf(Len(CallsOf("details")) + 1) ELSE <<>>
             out   == QuoteOutcome(res, token)
         IN  /\ log' = Append(log, Call("details", slots[idx].token, token, "", res, NoJson))
             /\ IF out.ok THEN TokenAcquired(out.tok) ELSE TaskReturns(out)
    /\ UNCHANGED <<clockMode, now, snipe_date, snipe_time, config, datetime, remaining, slept,
                   lastSleep, waited, slots>>

\* mutant: json["resy_token"].to_string() instead of json.get("resy_token"):
\* a response without the field reads as null and counts as booked
CommitOutcome_IndexNotGet(res, value) ==
    IF res \in {"token", "null", "no_resy_token"}
    THEN Ok(JsonToString(IF res = "token" THEN res ELSE "null", value))
    ELSE Err("BookingError", "Error booking reservation")

\* mutant: any response with a success status counts as booked
CommitOutcome_AnyResponse(res, value) ==
    IF res # GatewayErr THEN Ok(<<"o", "k">>)
    ELSE Err("BookingError", "Error booking reservation")

\* lines 208-224: the commit step of _sniper_task
CommitOutcome(res, value) ==
    IF res \in {"token", "null"} THEN Ok(JsonToString(res, value))
    ELSE Err("BookingError", "Error booking reservation")

Commit ==
    /\ pc = "commit"
    /\ \E res \in {GatewayErr} \cup BookJson :
         LET value == IF res = "token" THEN ResyTokenOf(book_token) ELSE <<>>
         IN  /\ log' = Append(log, Call("book", "", book_token, config.payment_id, res, NoJson))
             /\ TaskReturns(CommitOutcome(res, value))
    /\ UNCHANGED <<clockMode, now, snipe_date, snipe_time, config, datetime, remaining, slept,
                   lastSleep, waited, slots>>

Next ==
    \/ CheckTarget
    \/ ComputeRemaining
    \/ AlignSleep
    \/ WaitStep
    \/ WaitExit
    \/ ValidateConfig
    \/ FindSlots
    \/ Quote
    \/ Commit

Spec == Init /\ [][Next]_vars

(***************************************************************************)
(* view_venue, called without url and without date: it checks the          *)
(* target_time argument, stores it, looks the slots up and ranks them.     *)
(* Ok((venue_id, slots)) is result = Ok with the pair in config.venue_id   *)
(* and slots.                                                              *)
(***************************************************************************)
MaxViewEntries == 3

\* the party_size argument
ViewPartySizes == {None, [some |-> TRUE, v |-> 4]}

\* the target_time argument
ViewTargetTimes ==
    { None,
      Some(<<"1", "9", "0", "0">>),
      Some(<<"1", "8", "3", "0">>),
      Some(<<"2", "4", "0", "0">>),
      Some(<<"1", "9", "6", "0">>),
      Some(<<"1", "9", "x", "0">>),
      Some(<<"1", "9", "0">>) }

\* the raw entries the gateway lists to view_venue, by what they look like
ViewEntryKinds ==
    {"1800", "1830", "1915", "1930", "no_token", "no_field", "bad_start", "short_start"}

\* the k-th entry of the list, of the given kind; its config.id is its place
ViewEntry(kind, k) ==
    LET id == TokenDigits[k]
    IN  CASE kind = "1800" -> RawEntry(id, "tok", StartAt("1", "8", "0", "0"))
          [] kind = "1830" -> RawEntry(id, "tok", StartAt("1", "8", "3", "0"))
          [] kind = "1915" -> RawEntry(id, "tok", StartAt("1", "9", "1", "5"))
          [] kind = "1930" -> RawEntry(id, "tok", StartAt("1", "9", "3", "0"))
          [] kind = "no_token" ->
                [RawEntry(id, "tok", StartAt("1", "8", "4", "5")) EXCEPT
                    !.present = SlotFields \ {"cfg_token"}]
          [] kind = "no_field" ->
                [RawEntry(id, "tok", StartAt("1", "9", "0", "0")) EXCEPT !.present = {}]
          [] kind = "bad_start" -> RawEntry(id, "tok", StartAt("x", "x", "0", "0"))
          [] kind = "short_start" -> RawEntry(id, "tok", <<"1", "8", ":", "0", "0">>)

ViewFindJson ==
    UNION { { Json([k \in 1..n |-> ViewEntry(kinds[k], k)]) :
                kinds \in [1..n -> ViewEntryKinds] } : n \in 0..MaxViewEntries }

ViewInit ==
    /\ pc = "view"
    /\ clockMode = "exact"
    /\ now = 0
    /\ snipe_date = <<>>
    /\ snipe_time = <<>>
    /\ config \in {c \in Configs : Validate(c) /\ c.payment_id # ""
                                     /\ (c.target_time.some =>
                                            ParseNaiveTime(c.target_time.v, FALSE) # NoTime)}
    /\ datetime = NoInstant
    /\ remaining = 0
    /\ slept = FALSE
    /\ lastSleep = NoSleep
    /\ waited = FALSE
    /\ slots = <<>>
    /\ idx = 0
    /\ book_token = NoToken
    /\ log = <<>>
    /\ attempts = <<>>
    /\ result = NoResult

\* lines 96-100: four ASCII digits, hours below 24, minutes below 60
ValidTargetTime(s) ==
    /\ Len(s) = 4
    /\ \A k \in 1..4 : s[k] \in DigitChars
    /\ DigitVal(s[1]) * 10 + DigitVal(s[2]) < 24
    /\ DigitVal(s[3]) * 10 + DigitVal(s[4]) < 60

\* lines 82-110: the arguments
ViewVenue ==
    /\ pc = "view"
    /\ \E party \in ViewPartySizes, tt \in ViewTargetTimes :
         LET sized == IF party.some THEN [config EXCEPT !.party_size = party.v] ELSE config
         IN  IF tt.some /\ ~ValidTargetTime(tt.v)
             THEN /\ config' = sized
                  /\ Return(Err("InvalidInput",
                                "Invalid time format. Please use HHMM format, where HH is 00 to 23 and MM is 00 to 59."))
             ELSE /\ config' = [sized EXCEPT !.target_time = tt]
                  /\ pc' = "view_find"
                  /\ UNCHANGED result
    /\ UNCHANGED <<clockMode, now, snipe_date, snipe_time, datetime, remaining, slept,
                   lastSleep, waited, slots, idx, book_token, log, attempts>>

\* lines 112-118: the availability lookup and the ranking
ViewFind ==
    /\ pc = "view_find"
    /\ \E res \in {GatewayErr, "ok"} :
         \E json \in (IF res = "ok" THEN ViewFindJson \cup {NoJson} ELSE {NoJson}) :
           /\ log' = Append(log, Call("find", "", <<>>, "", res, json))
           /\ IF res = GatewayErr
              THEN /\ Return(Err("ApiError", "Error fetching venue"))
                   /\ UNCHANGED slots
              ELSE LET ranked == Ranked(format_slots(json), config.target_time)
                   IN  IF ranked.panicked
                       THEN /\ pc' = "panicked"
                            /\ UNCHANGED <<slots, result>>
                       ELSE /\ slots' = ranked.slots
                            /\ Return(Ok(<<>>))
    /\ UNCHANGED <<clockMode, now, snipe_date, snipe_time, config, datetime, remaining, slept,
                   lastSleep, waited, idx, book_token, attempts>>

\* a session of the client is one call of run_sniper or one call of view_venue
ClientInit == Init \/ ViewInit

ClientNext == Next \/ ViewVenue \/ ViewFind

ClientSpec == ClientInit /\ [][ClientNext]_vars

(***************************************************************************)
(* Properties.                                                             *)
(***************************************************************************)
\* a commit call the gateway answered with the confirmation field
Confirmed(c) == c.op = "book" /\ c.res \in {"token", "null"}

ConfirmedCommits == SelectSeq(log, Confirmed)

Succeeded == pc = "done" /\ result.ok

AllFailed == pc = "done" /\ result = Err("BookingError", "Booking failure: all slots failed")

\* the attempt on slot k ended at its quote step / at its commit step
QuoteFailedAt(k) ==
    attempts[k].ret.msg \in {"Error fetching book token", "Book token not found"}

CommitFailedAt(k) == attempts[k].ret.msg = "Error booking reservation"

\* C1: commit exclusivity: whatever the gateway answers, a session holds at most
\* one commit call that the gateway answered with a confirmation token.
C1_CommitExclusivity == Len(ConfirmedCommits) <= 1

\* a session that issued several commit calls and had one of them confirmed
C1_Witness == Succeeded /\ Len(CallsOf("book")) >= 2 /\ Len(ConfirmedCommits) = 1

\* C2: once a commit is confirmed the session is over with exactly one Success:
\* the confirmed commit is the last gateway call, so no other candidate issues a
\* commit (or a quote) after it, and the candidates behind the winner have no
\* gateway call at all.
C2_NoCommitAfterSuccess ==
    \A k \in 1..Len(log) :
        Confirmed(log[k]) =>
            /\ k = Len(log)
            /\ Succeeded
            /\ Cardinality({a \in 1..Len(attempts) : attempts[a].ret.ok}) = 1
            /\ attempts[Len(attempts)].ret = result
            /\ Len(CallsOf("book")) = Len(CallsOf("details"))
                  - Cardinality({a \in 1..Len(attempts) : QuoteFailedAt(a)})
            /\ \A j \in (idx + 1)..Len(slots) :
                   \A c \in 1..Len(log) : log[c].config_id # slots[j].token

\* a winner with a candidate behind it that never called the gateway
C2_Witness == Succeeded /\ idx < Len(slots) /\ Len(ConfirmedCommits) = 1

\* C3: completeness: Success is returned only with a candidate whose quote and
\* commit both succeeded, and the Failure of the race only when every slot of
\* the resolved list was attempted, in order, and failed; while a slot is
\* unattempted and nothing succeeded, no outcome is returned.
C3_Completeness ==
    /\ pc \in {"quote", "commit"} => result = NoResult /\ Len(attempts) = idx - 1
    /\ Succeeded =>
          /\ attempts # <<>>
          /\ attempts[Len(attempts)].ret = result
          /\ Confirmed(log[Len(log)])
          /\ log[Len(log) - 1].op = "details"
          /\ log[Len(log) - 1].res = "token"
          /\ log[Len(log) - 1].config_id = slots[attempts[Len(attempts)].slot].token
          /\ log[Len(log) - 1].book_token = log[Len(log)].book_token
    /\ AllFailed =>
          /\ Len(attempts) = Len(slots)
          /\ \A k \in 1..Len(slots) :
                /\ attempts[k].slot = k
                /\ ~attempts[k].ret.ok
                /\ \E c \in 1..Len(log) :
                      log[c].op = "details" /\ log[c].config_id = slots[k].token

\* the race failed after three slots were attempted
C3_Witness == AllFailed /\ Len(slots) >= 3 /\ Len(attempts) = Len(slots)

\* C4: a quote failure of the first candidate does not end the session: the
\* next candidate is attempted, the session ends with the Success of the first
\* later candidate whose quote and commit succeed, and it fails only when every
\* remaining candidate was attempted and failed too.
C4_QuoteFailureNonFatal ==
    (attempts # <<>> /\ QuoteFailedAt(1)) =>
        /\ log[2].op = "details" /\ log[2].res # "token"
        /\ Len(CallsOf("book")) = 0 \/ log[3].op = "details"
        /\ (Len(attempts) = 1 /\ Len(slots) >= 2) =>
               pc \in {"quote", "commit"} /\ idx = 2 /\ result = NoResult
        /\ \A k \in 2..Len(attempts) :
               attempts[k].ret.ok => Succeeded /\ result = attempts[k].ret
        /\ pc = "done" =>
               \/ result.ok /\ \E k \in 2..Len(attempts) : attempts[k].ret.ok
               \/ AllFailed /\ Len(attempts) = Len(slots)

\* the session succeeded although the quote of its first candidate failed
C4_Witness == Succeeded /\ attempts # <<>> /\ QuoteFailedAt(1) /\ Len(attempts) >= 2

\* C5: a commit failure does not sink the race: after it nothing is won and no
\* token is held, the next candidate is attempted with a quote of its own, and a
\* later candidate whose commit is confirmed wins the session.
C5_CommitFailureReleases ==
    \A k \in 1..Len(attempts) :
        (CommitFailedAt(k) /\ k < Len(slots)) =>
            /\ Len(attempts) = k =>
                  /\ result = NoResult
                  /\ idx = k + 1
                  /\ \/ pc = "quote" /\ book_token = NoToken
                     \/ pc = "commit" /\ book_token # NoToken
            /\ Len(attempts) > k => attempts[k + 1].slot = k + 1
            /\ \A j \in (k + 1)..Len(attempts) :
                  attempts[j].ret.ok => Succeeded /\ result = attempts[j].ret

\* a candidate won after the commit of an earlier candidate had failed
C5_Witness ==
    /\ Succeeded
    /\ \E k \in 1..Len(attempts) : CommitFailedAt(k)
    /\ Len(CallsOf("book")) >= 2

\* C6: the wait never returns early: once the wait loop has ended, the clock
\* reading it ended on is at or after the target instant, for every sequence of
\* readings.
C6_NeverEarly == waited => now >= datetime /\ remaining = datetime - now /\ remaining <= 0

\* the wait ended under an irregular clock, after sleeping
C6_Witness == waited /\ clockMode = "irregular" /\ slept /\ pc = "validate"

\* C7: with a clock that advances by each sleep's duration the wait loop ends at
\* a reading in [t, t + 1 s]; an iteration of the loop that starts within two
\* minutes of the target sleeps one second.
C7_WithinOneSecond ==
    /\ (clockMode = "exact" /\ waited) =>
           datetime <= now /\ now <= datetime + Secs(FineSleepSecs)
    /\ (lastSleep.phase = "loop" /\ lastSleep.before <= Secs(NearThresholdSecs)) =>
           lastSleep.dur = Secs(FineSleepSecs)
    /\ (clockMode = "exact" /\ pc = "wait" /\ lastSleep.phase = "loop") =>
           remaining = lastSleep.before - lastSleep.dur

\* an exact clock, coarse and fine sleeps, and the loop left strictly after t
C7_Witness ==
    /\ clockMode = "exact"
    /\ waited
    /\ now > datetime
    /\ lastSleep.phase = "loop"
    /\ lastSleep.dur = Secs(FineSleepSecs)

GuardRejected ==
    pc = "done" /\ result = Err("InvalidInput", "Snipe date/time is in the past")

\* C8: the session goes on to the wait only with a target strictly later than
\* the clock reading plus 60 s; otherwise it ends with InvalidInput, without
\* any sleep and without any gateway call.
C8_GuardWindow ==
    /\ pc = "compute" => datetime > now + Secs(GuardWindowSecs)
    /\ GuardRejected =>
          /\ datetime <= now + Secs(GuardWindowSecs)
          /\ ~slept
          /\ lastSleep = NoSleep
          /\ log = <<>>
          /\ ~waited

\* the target is 10 seconds ahead and the session is rejected
C8_Witness == GuardRejected /\ datetime - now = Secs(10)

\* C9: every gateway call of a session comes after the wait has returned at a
\* reading at or after the target; the first call is the one availability
\* lookup, and the race uses the slots of that lookup.
C9_NoActivityBeforeDeadline ==
    /\ log # <<>> =>
          /\ waited
          /\ now >= datetime
          /\ log[1].op = "find"
          /\ Len(CallsOf("find")) = 1
    /\ ~waited => slots = <<>> /\ attempts = <<>>
    /\ pc \in {"quote", "commit"} =>
          /\ log[1].res = "ok"
          /\ slots = (IF config.target_time.some
                      THEN sort_slots_by_closest_time(format_slots(log[1].json),
                                                      config.target_time.v).slots
                      ELSE format_slots(log[1].json))

\* a commit is in flight after a wait that slept
C9_Witness == pc = "commit" /\ waited /\ slept /\ now >= datetime

\* C10: an availability lookup that resolves to no slot ends the session with
\* NotFound at once: the lookup is its only gateway call.
C10_EmptyIsNotFound ==
    (log # <<>> /\ log[1].res = "ok" /\ pc # "panicked" /\ slots = <<>>) =>
        /\ pc = "done"
        /\ result = Err("NotFound", "no reservation slots available")
        /\ Len(log) = 1
        /\ attempts = <<>>

\* the gateway listed entries, none of them resolved, and the session ended
C10_Witness ==
    /\ pc = "done"
    /\ result.kind = "NotFound"
    /\ log[1].json.raw # <<>>
    /\ CallsOf("details") = <<>>
    /\ CallsOf("book") = <<>>

\* line 181: the per-slot reasons the error of run_sniper carries.  The
\* BookingError of the race is built from a string literal and names none.
ReasonsCarried(res) ==
    IF res.msg = "Booking failure: all slots failed" THEN <<>> ELSE <<res.msg>>

\* C11: when every candidate was attempted and none succeeded, the BookingError
\* of the session carries the failure reason of each attempted slot, one per
\* slot.
C11_CarriesReasons ==
    AllFailed =>
        /\ Len(ReasonsCarried(result)) = Len(attempts)
        /\ \A k \in 1..Len(attempts) : ReasonsCarried(result)[k] = attempts[k].ret.msg

\* the attempt a gateway call at position k of the log belongs to: every
\* attempt starts with one details call
AttemptOfCall(k) == Cardinality({j \in 1..k : log[j].op = "details"})

\* C12: a commit counts as successful only when the gateway answered with a
\* success status and the confirmation field: then the attempt returns Ok with
\* the field's value; an error status or a response without the field makes the
\* attempt fail with BookingError, and the session never reports it as Success.
C12_CommitNeedsConfirmation ==
    /\ \A k \in 1..Len(log) :
          log[k].op = "book" =>
              LET a == AttemptOfCall(k)
              IN  /\ a <= Len(attempts)
                  /\ attempts[a].ret.ok <=> log[k].res \in {"token", "null"}
                  /\ log[k].res = "token" =>
                        attempts[a].ret = Ok(<<"\"">> \o ResyTokenOf(log[k].book_token) \o <<"\"">>)
                  /\ log[k].res \in {GatewayErr, "no_resy_token"} =>
                        attempts[a].ret = Err("BookingError", "Error booking reservation")
    /\ Succeeded => log[Len(log)].op = "book" /\ log[Len(log)].res \in {"token", "null"}

\* a success response without the confirmation field, then a confirmed commit
C12_Witness ==
    /\ Succeeded
    /\ \E k \in 1..Len(log) : log[k].op = "book" /\ log[k].res = "no_resy_token"
    /\ \E k \in 1..Len(log) : log[k].op = "book" /\ log[k].res = GatewayErr

\* the variants of ResyClientError that run_sniper returns
ErrorKinds == {"InvalidInput", "ApiError", "NotFound", "BookingError"}

\* C13: exactly one outcome per session: a session has an outcome exactly when
\* it is over, the outcome is either a confirmation token or an error, never
\* both, it is a token exactly when a commit was confirmed, and once returned
\* it never changes.
C13_ExactlyOneOutcome ==
    /\ [](/\ pc = "done" <=> result # NoResult
          /\ pc = "done" =>
                /\ result.ok <=> ConfirmedCommits # <<>>
                /\ \/ result.ok /\ result.kind = "Ok" /\ result.tok # <<>> /\ result.msg = ""
                   \/ ~result.ok /\ result.kind \in ErrorKinds /\ result.tok = <<>>
                         /\ result.msg # "")
    /\ [][result # NoResult => result' = result /\ pc' = "done"]_vars

\* the last of several candidates won, with a null resy_token
C13_Witness ==
    /\ Succeeded
    /\ Len(slots) >= 2
    /\ Len(attempts) = Len(slots)
    /\ result.tok = <<"n", "u", "l", "l">>

\* C14: every InvalidInput outcome of a session (malformed date or time,
\* target inside the guard window, incomplete session parameters) is returned
\* before any sleep has occurred.
C14_InvalidInputBeforeWaiting ==
    (pc = "done" /\ result.kind = "InvalidInput") => ~slept

\* the availability lookup of the session, once it was made
FindCall == CallsOf("find")[1]

\* the lookup returned Ok(json) and the candidate list was built from it
Resolved == CallsOf("find") # <<>> /\ FindCall.res = "ok" /\ pc # "panicked"

\* the place of a slot in the gateway's list
GatewayPlace(slot) ==
    CHOOSE i \in 1..Len(FindCall.json.raw) : FindCall.json.raw[i].cfg_id = slot.id

\* minutes since midnight of the HH:MM in "YYYY-MM-DD HH:MM:SS"
StartMinutes(start) ==
    (DigitVal(start[12]) * 10 + DigitVal(start[13])) * 60
        + DigitVal(start[15]) * 10 + DigitVal(start[16])

\* minutes since midnight of an HHMM preferred time
TargetMinutes(t) ==
    (DigitVal(t[1]) * 10 + DigitVal(t[2])) * 60 + DigitVal(t[3]) * 10 + DigitVal(t[4])

MinuteDistance(slot) ==
    LET a == StartMinutes(slot.start)
        b == TargetMinutes(config.target_time.v)
    IN  IF a >= b THEN a - b ELSE b - a

StartsOf(ss) == [k \in 1..Len(ss) |-> ss[k].start]

ExampleStarts ==
    << StartAt("1", "8", "0", "0"), StartAt("1", "8", "3", "0"), StartAt("1", "9", "1", "5") >>

ExampleCase ==
    /\ Resolved
    /\ config.target_time = Some(<<"1", "9", "0", "0">>)
    /\ \A k \in 1..Len(FindCall.json.raw) : WellFormed(FindCall.json.raw[k])
    /\ [k \in 1..Len(FindCall.json.raw) |-> FindCall.json.raw[k].date_start] = ExampleStarts

\* C15: with a preferred time the candidate list is in ascending order of the
\* absolute minute-distance between start time and preferred time, slots of
\* equal distance keep their gateway order, and starts 18:00, 18:30, 19:15 with
\* preferred 19:00 give 19:15, 18:30, 18:00.
C15_RankedByDistance ==
    /\ (Resolved /\ config.target_time.some) =>
          \A i, j \in 1..Len(slots) :
             i < j =>
                \/ MinuteDistance(slots[i]) < MinuteDistance(slots[j])
                \/ /\ MinuteDistance(slots[i]) = MinuteDistance(slots[j])
                   /\ GatewayPlace(slots[i]) < GatewayPlace(slots[j])
    /\ ExampleCase =>
          StartsOf(slots) = <<ExampleStarts[3], ExampleStarts[2], ExampleStarts[1]>>

\* a ranked list of three whose two slots at equal distance kept their gateway
\* order behind a closer slot that the gateway listed last
C15_Witness ==
    /\ Resolved
    /\ pc = "done"
    /\ config.target_time = Some(<<"1", "9", "0", "0">>)
    /\ Len(slots) = 3
    /\ MinuteDistance(slots[1]) < MinuteDistance(slots[2])
    /\ MinuteDistance(slots[2]) = MinuteDistance(slots[3])
    /\ slots[2].start # slots[3].start
    /\ GatewayPlace(slots[1]) > GatewayPlace(slots[3])

\* C16: with no preferred time configured, the candidate list of the race and
\* the list view_venue returns are the normalized gateway list, in its order.
C16_GatewayOrderKept ==
    (Resolved /\ ~config.target_time.some) => slots = format_slots(FindCall.json)

\* a race over three candidates that the gateway did not list by time, with a
\* malformed entry between them
C16_Witness ==
    /\ Resolved
    /\ ~config.target_time.some
    /\ pc = "commit"
    /\ Len(slots) = 3
    /\ Len(FindCall.json.raw) = 4
    /\ StartMinutes(slots[2].start) > StartMinutes(slots[3].start)

\* the places of the gateway's list whose entry has every required field
KeptPlaces(raw) == {i \in 1..Len(raw) : SlotFields \subseteq raw[i].present}

\* view_venue computes no target instant; run_sniper has one when it looks up
ViewSession == Resolved /\ datetime = NoInstant

\* C17: format_slots returns, in gateway order, exactly the raw entries that
\* carry all required fields: the k-th well-formed entry is the k-th slot,
\* whatever malformed entries surround it; no entries or no slots array give
\* the empty list, which view_venue returns as Ok.
C17_DropsOnlyMalformed ==
    (CallsOf("find") # <<>> /\ FindCall.res = "ok") =>
        LET json == FindCall.json
            out  == format_slots(json)
            kept == KeptPlaces(json.raw)
        IN  /\ (~json.has_slots \/ json.raw = <<>>) => out = <<>>
            /\ json.has_slots =>
                  /\ Len(out) = Cardinality(kept)
                  /\ \A i \in kept :
                        LET s == out[Cardinality({j \in kept : j <= i})]
                            e == json.raw[i]
                        IN  /\ s.id = e.cfg_id /\ s.token = e.cfg_token
                            /\ s.slot_type = e.cfg_type
                            /\ s.start = e.date_start /\ s.end = e.date_end
                            /\ s.min_size = e.size_min /\ s.max_size = e.size_max
                            /\ s.quantity = e.quantity
            /\ (ViewSession /\ out = <<>>) => result = Ok(<<>>) /\ slots = <<>>
            /\ (ViewSession /\ ~config.target_time.some) => slots = out

\* view_venue returned the one well-formed entry that stood between two
\* malformed ones
C17_Witness ==
    /\ ViewSession
    /\ pc = "done"
    /\ result.ok
    /\ Len(FindCall.json.raw) = 3
    /\ KeptPlaces(FindCall.json.raw) = {2}
    /\ Len(slots) = 1
    /\ slots[1].id = FindCall.json.raw[2].cfg_id

\* the "won" state of the sequential race: run_sniper has taken the return
\* Ok(token) of line 175, after which no other candidate is tried
Won == result.ok

\* C18: the "won" state goes from false to true only at the step at which a
\* commit call is confirmed, never goes back (so it changes at most once), and
\* is false as long as no commit has been confirmed.
C18_GuardInvariant ==
    /\ [](ConfirmedCommits = <<>> => ~Won)
    /\ [][(~Won /\ Won') =>
             /\ pc = "commit"
             /\ Len(log') = Len(log) + 1
             /\ Confirmed(log'[Len(log')])
             /\ ConfirmedCommits = <<>>]_vars
    /\ [][Won => Won']_vars

\* won at the second commit call of the session, the first one having failed
C18_Witness ==
    /\ Won
    /\ Len(CallsOf("book")) = 2
    /\ ~Confirmed(CallsOf("book")[1])
    /\ Confirmed(CallsOf("book")[2])

\* C19: a booking quote is single-use: no two commit calls of a session carry
\* the same book token, every commit call carries the token that the details
\* call just before it returned, and no token is held once its commit call has
\* returned.
C19_QuoteSingleUse ==
    /\ \A i, j \in 1..Len(log) :
          (i # j /\ log[i].op = "book" /\ log[j].op = "book") =>
              log[i].book_token # log[j].book_token
    /\ \A i \in 1..Len(log) :
          log[i].op = "book" =>
              /\ i > 1
              /\ log[i - 1].op = "details"
              /\ log[i - 1].res = "token"
              /\ log[i - 1].book_token = log[i].book_token
              /\ log[i].book_token # NoToken
    /\ (log # <<>> /\ log[Len(log)].op = "book") => book_token = NoToken

\* a failed commit was followed by a fresh quote and a commit with its token
C19_Witness ==
    /\ Len(CallsOf("book")) = 2
    /\ Len(CallsOf("details")) = 2
    /\ ~Confirmed(CallsOf("book")[1])
    /\ CallsOf("book")[1].book_token = BookTokenOf(1)
    /\ CallsOf("book")[2].book_token = BookTokenOf(2)

\* C20: when the remote rejects a quote request (gateway error, or a response
\* without a usable book token), the quote step of that candidate fails with
\* ApiError or NotFound.
C20_QuoteRejectionKind ==
    \A k \in 1..Len(attempts) :
        QuoteFailedAt(k) => attempts[k].ret.kind \in {"ApiError", "NotFound"}

\* C21: no availability lookup, quote or commit call is issued in a session
\* unless api key, auth token, payment reference, venue identifier, target
\* date and party size are all non-empty.
C21_CompleteParameters ==
    log # <<>> =>
        /\ config.api_key # ""
        /\ config.auth_token # ""
        /\ config.payment_id # ""
        /\ config.venue_id # ""
        /\ config.date # ""
        /\ config.party_size > 0

\* the candidates that hold a book token and whose commit call has not returned
CommitsInFlight ==
    Cardinality({k \in 1..Len(log) : log[k].op = "details" /\ log[k].res = "token"})
        - Len(CallsOf("book"))

\* C22: commit attempts are serialized: at most one candidate at a time is
\* between the receipt of its book token and the return of its commit call,
\* and there is one exactly while the session is at a commit call.
C22_CommitsSerialized ==
    /\ CommitsInFlight \in {0, 1}
    /\ CommitsInFlight = 1 <=> pc = "commit"
    /\ Won => CommitsInFlight = 0

\* a second candidate is at its commit call after the first one's commit failed
C22_Witness ==
    /\ pc = "commit"
    /\ CommitsInFlight = 1
    /\ Len(CallsOf("book")) = 1
    /\ ~Confirmed(CallsOf("book")[1])
    /\ idx = 2

\* C23: when the session returns Ok, the token is the one of the earliest slot
\* of the candidate list whose quote and commit both succeeded: every slot
\* before it was attempted and failed, and the returned token is the
\* resy_token the gateway answered to the commit of that slot's quote.
C23_FirstSuccessWins ==
    Succeeded =>
        \E k \in 1..Len(attempts) :
            /\ attempts[k].ret.ok
            /\ attempts[k].slot = k
            /\ \A j \in 1..(k - 1) : attempts[j].slot = j /\ ~attempts[j].ret.ok
            /\ result = attempts[k].ret
            /\ \E i \in 2..Len(log) :
                  /\ Confirmed(log[i])
                  /\ \A h \in 1..(i - 1) : ~Confirmed(log[h])
                  /\ log[i - 1].op = "details"
                  /\ log[i - 1].config_id = slots[k].token
                  /\ log[i - 1].book_token = log[i].book_token
                  /\ result.tok = JsonToString(log[i].res, ResyTokenOf(log[i].book_token))

\* the third candidate won after the first failed at its quote and the second
\* at its commit
C23_Witness ==
    /\ Succeeded
    /\ Len(attempts) = 3
    /\ QuoteFailedAt(1)
    /\ CommitFailedAt(2)
    /\ result.tok = JsonToString("token", ResyTokenOf(BookTokenOf(3)))

\* C24: a sleep step of the wait loop that starts with more than the
\* near-threshold of two minutes remaining is no longer than the time left
\* until the threshold is reached.
C24_CoarseStopsAtThreshold ==
    (lastSleep.phase = "loop" /\ lastSleep.before > Secs(NearThresholdSecs)) =>
        lastSleep.dur <= lastSleep.before - Secs(NearThresholdSecs)

\* the statements of run_sniper a session can be at
Running ==
    pc \in {"start", "compute", "align", "wait", "validate", "find", "quote", "commit"}

\* C25: every session comes to its outcome, stated on finite runs: a session
\* that is no longer at a statement of run_sniper has returned its outcome;
\* and it makes at most one availability lookup, and at most one quote call
\* and one commit call per candidate.
C25_Terminates ==
    /\ ~Running => (pc = "done" /\ result # NoResult)
    /\ Len(CallsOf("find")) <= 1
    /\ Len(CallsOf("details")) <= Len(slots)
    /\ Len(CallsOf("book")) <= Len(slots)

\* C26: a commit call is issued only right after the quote call of the same
\* slot returned a book token; a quote call that failed or returned no usable
\* book token is never followed by a commit call for that slot; hence there
\* are never more commit calls than successful quotes.
C26_QuoteBeforeCommit ==
    /\ \A i \in 1..Len(log) :
          log[i].op = "book" =>
              /\ i > 1
              /\ log[i - 1].op = "details"
              /\ log[i - 1].res = "token"
              /\ log[i - 1].config_id = slots[AttemptOfCall(i)].token
    /\ \A i \in 1..Len(log) :
          (log[i].op = "details" /\ log[i].res # "token" /\ i < Len(log)) =>
              /\ log[i + 1].op = "details"
              /\ AttemptOfCall(i + 1) = AttemptOfCall(i) + 1
    /\ Len(CallsOf("book")) <=
          Cardinality({i \in 1..Len(log) : log[i].op = "details" /\ log[i].res = "token"})

\* quotes without a book token for the first two slots, then a quote with one
\* and its commit call
C26_Witness ==
    /\ Len(log) = 5
    /\ log[2].op = "details" /\ log[2].res = "no_book_token"
    /\ log[3].op = "details" /\ log[3].res = "value_not_str"
    /\ log[4].op = "details" /\ log[4].res = "token"
    /\ log[5].op = "book"

\* C27: slots are attempted one at a time in the order of the candidate list:
\* the k-th quote call of the session is for the k-th slot, no slot gets a
\* second quote call, and a quote call is issued only when every earlier slot's
\* attempt has finished, each with a failure.
C27_SequentialOrder ==
    /\ [](/\ Len(CallsOf("details")) <= Len(slots)
          /\ \A k \in 1..Len(CallsOf("details")) :
                CallsOf("details")[k].config_id = slots[k].token
          /\ \A k \in 1..Len(attempts) : attempts[k].slot = k
          /\ \A i, j \in 1..Len(log) :
                (i # j /\ log[i].op = "details" /\ log[j].op = "details") =>
                    log[i].config_id # log[j].config_id
          /\ Len(CallsOf("details")) - Len(attempts) \in {0, 1})
    /\ [][(Len(log') = Len(log) + 1 /\ log'[Len(log')].op = "details") =>
             /\ Len(attempts) = Len(CallsOf("details"))
             /\ \A k \in 1..Len(attempts) : ~attempts[k].ret.ok
             /\ log'[Len(log')].config_id = slots[Len(attempts) + 1].token]_vars

\* the third slot of a ranked list is quoted after a quote failure on the
\* first and a commit failure on the second
C27_Witness ==
    /\ config.target_time.some
    /\ Len(CallsOf("details")) = 3
    /\ Len(attempts) = 2
    /\ QuoteFailedAt(1)
    /\ CommitFailedAt(2)
    /\ pc = "commit"

\* C28: the alignment sleep, of the whole seconds of the remaining time modulo
\* 60, is taken only when that is positive, is shorter than a minute and is
\* never longer than the remaining time it was computed from; with a clock
\* that follows the sleep, the waiter wakes from it not after the target.
C28_AlignSleepWithinRemaining ==
    /\ lastSleep.phase = "align" =>
          /\ lastSleep.dur = Secs(SecondsToSleep(lastSleep.before))
          /\ lastSleep.dur > 0
          /\ lastSleep.dur < Secs(AlignModulusSecs)
          /\ lastSleep.dur <= lastSleep.before
    /\ (lastSleep.phase = "align" /\ clockMode = "exact") =>
          /\ remaining = lastSleep.before - lastSleep.dur
          /\ remaining >= 0
    /\ (pc = "wait" /\ lastSleep.phase = "none") => ~slept

\* an alignment sleep of 59 s that ends half a second before the target
C28_Witness ==
    /\ pc = "wait"
    /\ lastSleep.phase = "align"
    /\ lastSleep.dur = Secs(59)
    /\ lastSleep.before = Secs(59) + 1

\* C29: if the availability lookup fails, which can only be after the wait,
\* the session ends with ApiError at that step: it is the only gateway call of
\* the session, no slot is attempted and the lookup is not made again.
C29_LookupFailureEnds ==
    (CallsOf("find") # <<>> /\ FindCall.res = GatewayErr) =>
        /\ waited
        /\ pc = "done"
        /\ result = Err("ApiError", "Error fetching venue")
        /\ Len(log) = 1
        /\ attempts = <<>>
        /\ slots = <<>>

\* the lookup failed after a wait that slept
C29_Witness ==
    /\ CallsOf("find") # <<>>
    /\ FindCall.res = GatewayErr
    /\ slept
    /\ now >= datetime
    /\ result.kind = "ApiError"

\* the start time of a slot parses as HH:MM at bytes 11..16 of its start string
StartParses(slot) ==
    /\ Len(slot.start) >= StartSliceTo
    /\ ParseNaiveTime(SubSeq(slot.start, StartSliceFrom + 1, StartSliceTo), TRUE) # NoTime

\* the preferred time parses as %H%M
TargetParses == ParseNaiveTime(config.target_time.v, FALSE) # NoTime

\* what sort_slots_by_closest_time does to the list it is given in a session
\* with a preferred time: found is the list given, slots the list returned
SortKeepsOrLoses(found) ==
    /\ \A k \in 1..Len(slots) : \E h \in 1..Len(found) : slots[k] = found[h]
    /\ \A i, j \in 1..Len(slots) : i # j => slots[i].id # slots[j].id
    /\ (TargetParses /\ \A h \in 1..Len(found) : StartParses(found[h])) =>
          /\ Len(slots) = Len(found)
          /\ \A h \in 1..Len(found) : \E k \in 1..Len(slots) : slots[k] = found[h]
    /\ TargetParses =>
          \A h \in 1..Len(found) :
              StartParses(found[h]) <=> \E k \in 1..Len(slots) : slots[k] = found[h]
    /\ ~TargetParses =>
          /\ slots = <<>>
          /\ pc = "done"
          /\ result = Err("NotFound", "no reservation slots available")
          /\ attempts = <<>>
          /\ Len(log) = 1

\* C30: in a session with a preferred time, sort_slots_by_closest_time returns
\* a permutation of the list it is given when the preferred time and every
\* start time parse; otherwise it returns the list without the slots whose
\* start time does not parse, and the empty list when the preferred time does
\* not parse, which run_sniper reports as NotFound without attempting a slot.
C30_PermutationOrLoss ==
    (CallsOf("find") # <<>> /\ FindCall.res = "ok" /\ config.target_time.some) =>
        /\ pc # "panicked"
        /\ SortKeepsOrLoses(format_slots(FindCall.json))

====
